---- MODULE Spec2Model ----
(***************************************************************************)
(* AI Image Caption Generator: the caption router (multer upload, file and *)
(* prompt validation, the two POST handlers, the router's error            *)
(* middleware) and the VisionService (withRetry, generateCaption,          *)
(* generateCaptionWithPrompt).                                             *)
(*                                                                         *)
(* Text is modelled as a sequence of symbols.  Captions and prompts are    *)
(* sequences over {" ", "a"} (a blank and a non-blank character); error    *)
(* messages are sequences of words, and String.includes is containment of  *)
(* a contiguous run of words.  An optional value (a field that may be      *)
(* undefined) is the empty tuple or a one-element tuple.                   *)
(***************************************************************************)
EXTENDS Integers, Sequences, FiniteSets, TLC

VARIABLES env, offered, pc, req, file, mwError, attempt, lastError, text,
          invoked, calls, delays, entered, configured, responses

vars == <<env, offered, pc, req, file, mwError, attempt, lastError, text,
          invoked, calls, delays, entered, configured, responses>>

(* ------------------------------ bounds -------------------------------- *)

\* Longest caption / prompt text enumerated.
MaxLen == 2

\* The requests of a run; Spec serves the first one alone.
Requests == {"r1", "r2"}

(* --------------------------- optional values --------------------------- *)

None == <<>>

Some(x) == <<x>>

(* -------------------------------- text --------------------------------- *)

Blank == " "

TextChars == {Blank, "a"}

Texts == UNION {[1..n -> TextChars] : n \in 0..MaxLen}

RECURSIVE trimStart(_)
trimStart(s) ==
    IF s # <<>> /\ Head(s) = Blank THEN trimStart(Tail(s)) ELSE s

RECURSIVE trimEnd(_)
trimEnd(s) ==
    IF s # <<>> /\ s[Len(s)] = Blank THEN trimEnd(SubSeq(s, 1, Len(s) - 1)) ELSE s

\* Mutant of trim: only leading blanks are removed.
trimLeadingOnly(s) == trimStart(s)

\* String.prototype.trim
trim(s) == trimEnd(trimStart(s))

\* String.prototype.includes on word sequences
includes(msg, sub) ==
    \E i \in 0..(Len(msg) - Len(sub)) :
        \A j \in 1..Len(sub) : msg[i + j] = sub[j]

lowerWord(w) ==
    CASE w = "Rate"  -> "rate"
      [] w = "Limit" -> "limit"
      [] w = "RATE"  -> "rate"
      [] w = "LIMIT" -> "limit"
      [] OTHER       -> w

\* String.prototype.toLowerCase on word sequences
toLowerCase(msg) == [i \in 1..Len(msg) |-> lowerWord(msg[i])]

(* ------------------------------ constants ------------------------------ *)

\* Mutant of maxRetries: one attempt more.
maxRetriesFour == 3 + 1

maxRetries == 3

baseDelay == 1000

fileSize == 10 * 1024 * 1024

SUPPORTED_IMAGE_TYPES == <<"image/jpeg", "image/png", "image/gif", "image/webp">>

SupportedSet == {SUPPORTED_IMAGE_TYPES[i] : i \in 1..Len(SUPPORTED_IMAGE_TYPES)}

(* ------------------------ VisionService (pure) -------------------------- *)

\* Mutant of isRateLimit: the textual signal is matched case-sensitively.
isRateLimitCaseSensitive(message) ==
    includes(message, <<"429">>) \/ includes(message, <<"rate", "limit">>)

\* withRetry: the rate-limit test on the caught error's message
isRateLimit(message) ==
    includes(message, <<"429">>) \/ includes(toLowerCase(message), <<"rate", "limit">>)

\* Mutant of retryDelay: the delay grows linearly from zero.
retryDelayLinear(n) == baseDelay * 2 * n

\* withRetry: the backoff delay of attempt n (0-based)
retryDelay(n) == baseDelay * 2^n

\* Mutant of shouldRetry: every failure is retried while attempts remain.
shouldRetryAnyError(message, n) == n < maxRetries - 1

\* Mutant of shouldRetry: a rate-limited failure is always retried.
shouldRetryUnbounded(message, n) == isRateLimit(message)

RECURSIVE attemptsOf(_)
attemptsOf(S) ==
    IF S = {} THEN 0
    ELSE LET r == CHOOSE x \in S : TRUE IN attempt[r] + attemptsOf(S \ {r})

\* Mutant of shouldRetry: the attempts left are counted across all requests,
\* as if the attempt counter were a field shared by every call.
shouldRetryShared(message, n) ==
    isRateLimit(message) /\ attemptsOf(Requests) < maxRetries - 1

\* withRetry: whether the catch block sleeps and continues
shouldRetry(message, n) == isRateLimit(message) /\ n < maxRetries - 1

\* withRetry: the for loop's test
loopContinues(n) == n < maxRetries

MsgNoCaption == <<"No caption generated from the AI model">>

MsgNoResponse == <<"No response generated from the AI model">>

MsgUnauthorized == <<"Invalid API key or unauthorized access">>

MsgNotFound == <<"Model deployment not found">>

\* The source's message is Thai text ("the API is limited, please wait a moment").
MsgRateLimited == <<"API rate limited, please wait a moment">>

MsgFailedPrefix == <<"Failed to generate caption:">>

DefaultPrompt == <<"Please analyze this image and generate a detailed, natural language caption">>

\* `!caption`: content is null/undefined or the empty string
noContent(content) == content = None \/ content = Some(<<>>)

\* The operation passed to withRetry, once the API call has settled:
\* [ok |-> TRUE, value |-> caption] or [ok |-> FALSE, value |-> error message].
operation(outcome, emptyMessage) ==
    IF outcome.error # None
    THEN [ok |-> FALSE, value |-> outcome.error[1]]
    ELSE IF noContent(outcome.content)
         THEN [ok |-> FALSE, value |-> emptyMessage]
         ELSE [ok |-> TRUE, value |-> trim(outcome.content[1])]

\* generateCaption(...).catch: the message of the error thrown to the handler
generateCaptionCatch(message) ==
    IF includes(message, <<"401">>) THEN MsgUnauthorized
    ELSE IF includes(message, <<"404">>) THEN MsgNotFound
    ELSE IF includes(message, <<"429">>) THEN MsgRateLimited
    ELSE MsgFailedPrefix \o message

\* generateCaptionWithPrompt(...).catch
generateCaptionWithPromptCatch(message) ==
    IF includes(message, <<"429">>) THEN MsgRateLimited ELSE message

(* ---------------------------- router (pure) ----------------------------- *)

MsgInvalidFilter == <<"Invalid file type. Supported types: image/jpeg, image/png, image/gif, image/webp">>

MsgNoFile == <<"No image file provided">>

MsgEmptyFile == <<"Empty file uploaded">>

MsgPromptRequired == <<"Custom prompt is required">>

MsgMissingEnv == <<"Missing required Azure OpenAI environment variables">>

MsgSizeLimit == <<"File size exceeds the 10MB limit">>

MsgUnexpected == <<"An unexpected error occurred">>

PlainError(message) == [isMulter |-> FALSE, code |-> "", message |-> message]

MulterError(code, message) == [isMulter |-> TRUE, code |-> code, message |-> message]

\* fileFilter: the error handed to the callback, if any
fileFilter(f) ==
    IF f.mimetype \in SupportedSet THEN None ELSE Some(PlainError(MsgInvalidFilter))

\* upload.single('image') with memory storage and limits.fileSize:
\* [file |-> req.file, error |-> the error passed to next()].
uploadSingle(u) ==
    IF u.kind = "none" THEN [file |-> None, error |-> None]
    ELSE IF u.kind = "unexpected"
    THEN [file |-> None,
          error |-> Some(MulterError("LIMIT_UNEXPECTED_FILE", <<"Unexpected", "field">>))]
    ELSE LET f == [mimetype |-> u.mimetype, size |-> u.size] IN
         IF fileFilter(f) # None THEN [file |-> None, error |-> fileFilter(f)]
         ELSE IF u.size > fileSize
         THEN [file |-> None,
               error |-> Some(MulterError("LIMIT_FILE_SIZE", <<"File", "too", "large">>))]
         ELSE [file |-> Some(f), error |-> None]

\* validateFile: [isValid, error]
validateFile(f) ==
    IF f = None THEN [isValid |-> FALSE, error |-> Some(MsgNoFile)]
    ELSE IF f[1].size = 0 THEN [isValid |-> FALSE, error |-> Some(MsgEmptyFile)]
    ELSE IF f[1].mimetype \notin SupportedSet
    THEN [isValid |-> FALSE,
          error |-> Some(<<"Invalid file type:", f[1].mimetype, "Supported:">>)]
    ELSE [isValid |-> TRUE, error |-> None]

\* Mutant of promptMissing: the prompt is not trimmed before the length test.
promptMissingUntrimmed(prompt) == prompt = None \/ prompt = Some(<<>>)

\* `!customPrompt || customPrompt.trim().length === 0`
promptMissing(prompt) ==
    prompt = None \/ prompt = Some(<<>>) \/ Len(trim(prompt[1])) = 0

\* getVisionService: whether it throws
missingEnv(e) == e.apiKey = "" \/ e.endpoint = "" \/ e.modelId = ""

Envelope(status, success, caption, error) ==
    [status |-> status, success |-> success, caption |-> caption, error |-> error]

\* Mutant of errorMiddleware: a multer error is answered like any other error.
errorMiddlewareAll500(err) ==
    Envelope(500, FALSE, None,
             Some(IF err.message # <<>> THEN err.message ELSE MsgUnexpected))

\* The router's error-handling middleware
errorMiddleware(err) ==
    IF err.isMulter
    THEN IF err.code = "LIMIT_FILE_SIZE"
         THEN Envelope(400, FALSE, None, Some(MsgSizeLimit))
         ELSE Envelope(400, FALSE, None, Some(<<"Upload error:">> \o err.message))
    ELSE Envelope(500, FALSE, None,
                  Some(IF err.message # <<>> THEN err.message ELSE MsgUnexpected))

\* Mutant of handlerCatch: the failure is answered without an error field.
handlerCatchSilent(message) == Envelope(500, FALSE, None, None)

\* The handlers' catch block
handlerCatch(message) == Envelope(500, FALSE, None, Some(message))

\* The handlers' success path
handlerSuccess(caption) == Envelope(200, TRUE, Some(caption), None)

\* The handlers' validation rejections
handlerReject(message) == Envelope(400, FALSE, None, Some(message))

(* ------------------------------- inputs --------------------------------- *)

Routes == {"/", "/custom"}

MimeTypes == SupportedSet \cup {"text/plain"}

FileSizes == {0, 1, fileSize, fileSize + 1}

Uploads ==
    {[kind |-> "none", mimetype |-> "", size |-> 0],
     [kind |-> "unexpected", mimetype |-> "image/png", size |-> 1]}
    \cup [kind : {"file"}, mimetype : MimeTypes, size : FileSizes]

\* req.body.prompt: absent, or a text
Prompts == {None} \cup {Some(t) : t \in Texts}

Envs == [apiKey : {"", "key"}, endpoint : {"", "url"}, modelId : {"", "model"}]

\* Messages of the errors the API client throws
UpstreamErrors ==
    {<<"401", "Unauthorized">>,
     <<"404", "Resource", "not", "found">>,
     <<"429", "Too", "Many", "Requests">>,
     <<"Rate", "Limit", "reached">>,
     <<"500", "Internal", "server", "error">>}

\* What one chat.completions.create call settles to: an error thrown, or a
\* response whose choices[0]?.message?.content is missing or a text.
Outcomes ==
    {[error |-> Some(m), content |-> None] : m \in UpstreamErrors}
    \cup {[error |-> None, content |-> c] : c \in {None} \cup {Some(t) : t \in Texts}}

(* ---------------------------- state machine ----------------------------- *)

\* The requests clients may send
Inputs == [route : Routes, upload : Uploads, prompt : Prompts]

InitOffering(live, inputs) ==
    /\ env \in Envs
    /\ offered = inputs
    /\ pc = [r \in Requests |-> IF r \in live THEN "idle" ELSE "off"]
    /\ req = [r \in Requests |-> None]
    /\ file = [r \in Requests |-> None]
    /\ mwError = [r \in Requests |-> None]
    /\ attempt = [r \in Requests |-> 0]
    /\ lastError = [r \in Requests |-> None]
    /\ text = [r \in Requests |-> None]
    /\ invoked = [r \in Requests |-> 0]
    /\ calls = [r \in Requests |-> <<>>]
    /\ delays = [r \in Requests |-> <<>>]
    /\ entered = [r \in Requests |-> FALSE]
    /\ configured = [r \in Requests |-> FALSE]
    /\ responses = [r \in Requests |-> <<>>]

InitWith(live) == InitOffering(live, Inputs)

Init == InitWith({"r1"})

\* Two clients, each sending one of three requests: a caption request, a
\* custom-prompt request, and an upload of a type outside the allow-list.
ConcInputs ==
    {[route |-> "/", upload |-> [kind |-> "file", mimetype |-> "image/png", size |-> 1],
      prompt |-> None],
     [route |-> "/custom", upload |-> [kind |-> "file", mimetype |-> "image/png", size |-> 1],
      prompt |-> Some(<<"a">>)],
     [route |-> "/", upload |-> [kind |-> "file", mimetype |-> "text/plain", size |-> 1],
      prompt |-> None]}

InitConc == InitOffering(Requests, ConcInputs)

\* res.status(...).json(response)
Respond(r, envelope) ==
    /\ responses' = [responses EXCEPT ![r] = Append(@, envelope)]
    /\ pc' = [pc EXCEPT ![r] = "done"]

\* A POST request reaches the router.
Arrive(r) ==
    /\ pc[r] = "idle"
    /\ \E i \in offered : req' = [req EXCEPT ![r] = Some(i)]
    /\ pc' = [pc EXCEPT ![r] = "upload"]
    /\ UNCHANGED <<env, offered, file, mwError, attempt, lastError, text, invoked, calls,
                   delays, entered, configured, responses>>

\* upload.single('image'): sets req.file and calls next(), or next(err).
Upload(r) ==
    /\ pc[r] = "upload"
    /\ LET res == uploadSingle(req[r][1].upload) IN
          /\ file' = [file EXCEPT ![r] = res.file]
          /\ mwError' = [mwError EXCEPT ![r] = res.error]
          /\ pc' = [pc EXCEPT ![r] = IF res.error = None THEN "handler" ELSE "error"]
    /\ UNCHANGED <<env, offered, req, attempt, lastError, text, invoked, calls, delays,
                   entered, configured, responses>>

\* The router's error middleware answers an error passed to next().
ErrorMiddleware(r) ==
    /\ pc[r] = "error"
    /\ Respond(r, errorMiddleware(mwError[r][1]))
    /\ UNCHANGED <<env, offered, req, file, mwError, attempt, lastError, text, invoked,
                   calls, delays, entered, configured>>

\* The handler body up to its first await: validation, getVisionService, and
\* the first invocation of the operation by withRetry.  `prompt` is the text
\* handed to the service; `reject` is the prompt check's verdict.
Handle(r, reject, prompt) ==
    /\ entered' = [entered EXCEPT ![r] = TRUE]
    /\ IF ~validateFile(file[r]).isValid
       THEN /\ Respond(r, handlerReject(validateFile(file[r]).error[1]))
            /\ UNCHANGED <<configured, text, invoked>>
       ELSE IF reject
       THEN /\ Respond(r, handlerReject(MsgPromptRequired))
            /\ UNCHANGED <<configured, text, invoked>>
       ELSE /\ configured' = [configured EXCEPT ![r] = TRUE]
            /\ IF missingEnv(env)
               THEN /\ Respond(r, handlerCatch(MsgMissingEnv))
                    /\ UNCHANGED <<text, invoked>>
               ELSE /\ text' = [text EXCEPT ![r] = Some(prompt)]
                    /\ invoked' = [invoked EXCEPT ![r] = @ + 1]
                    /\ pc' = [pc EXCEPT ![r] = "await"]
                    /\ UNCHANGED responses
    /\ UNCHANGED <<env, offered, req, file, mwError, attempt, lastError, calls, delays>>

\* POST /
PostCaption(r) ==
    /\ pc[r] = "handler"
    /\ req[r][1].route = "/"
    /\ Handle(r, FALSE, DefaultPrompt)

\* POST /custom
PostCustom(r) ==
    /\ pc[r] = "handler"
    /\ req[r][1].route = "/custom"
    /\ LET p == req[r][1].prompt IN
          Handle(r, promptMissing(p), IF p = None THEN <<>> ELSE trim(p[1]))

\* The message the service throws to the handler for a withRetry failure.
serviceCatch(route, message) ==
    IF route = "/" THEN generateCaptionCatch(message)
    ELSE generateCaptionWithPromptCatch(message)

emptyMessage(route) == IF route = "/" THEN MsgNoCaption ELSE MsgNoResponse

\* The pending API call settles; withRetry returns, sleeps, or throws, and in
\* the first and last case the handler answers.
Settle(r) ==
    /\ pc[r] = "await"
    /\ \E outcome \in Outcomes :
          LET route == req[r][1].route
              res == operation(outcome, emptyMessage(route))
          IN /\ calls' = [calls EXCEPT ![r] = Append(@, outcome)]
             /\ IF res.ok
                THEN /\ Respond(r, handlerSuccess(res.value))
                     /\ UNCHANGED <<lastError, delays>>
                ELSE /\ lastError' = [lastError EXCEPT ![r] = Some(res.value)]
                     /\ IF shouldRetry(res.value, attempt[r])
                        THEN /\ delays' = [delays EXCEPT ![r] = Append(@, retryDelay(attempt[r]))]
                             /\ pc' = [pc EXCEPT ![r] = "sleep"]
                             /\ UNCHANGED responses
                        ELSE /\ Respond(r, handlerCatch(serviceCatch(route, res.value)))
                             /\ UNCHANGED delays
    /\ UNCHANGED <<env, offered, req, file, mwError, attempt, text, invoked, entered, configured>>

\* sleep(delay) resolves: `continue`, attempt++, the loop test, and either the
\* next invocation of the operation or the throw after the loop.
Wake(r) ==
    /\ pc[r] = "sleep"
    /\ attempt' = [attempt EXCEPT ![r] = @ + 1]
    /\ IF loopContinues(attempt[r] + 1)
       THEN /\ invoked' = [invoked EXCEPT ![r] = @ + 1]
            /\ pc' = [pc EXCEPT ![r] = "await"]
            /\ UNCHANGED responses
       ELSE /\ Respond(r, handlerCatch(serviceCatch(req[r][1].route, lastError[r][1])))
            /\ UNCHANGED invoked
    /\ UNCHANGED <<env, offered, req, file, mwError, lastError, text, calls, delays,
                   entered, configured>>

Next ==
    \E r \in Requests :
        \/ Arrive(r)
        \/ Upload(r)
        \/ ErrorMiddleware(r)
        \/ PostCaption(r)
        \/ PostCustom(r)
        \/ Settle(r)
        \/ Wake(r)

Spec == Init /\ [][Next]_vars

\* Every pending API call settles and every backoff sleep resolves.
Completion == \A r \in Requests : WF_vars(Settle(r)) /\ WF_vars(Wake(r))

FairSpec == Init /\ [][Next]_vars /\ Completion

\* Two requests in flight at once, their steps interleaved.
ConcSpec == InitConc /\ [][Next]_vars

(* ------------------------- vocabulary of the claims --------------------- *)

\* The request r has been received.
Received(r) == req[r] # None

\* The API call answered with usable content (neither missing nor empty).
Succeeded(o) == o.error = None /\ o.content # None /\ o.content # Some(<<>>)

\* The message of the error a failed invocation throws on route rt.
FailureOf(o, rt) ==
    IF o.error # None THEN o.error[1]
    ELSE IF rt = "/" THEN MsgNoCaption ELSE MsgNoResponse

\* The failure carries a rate-limit signal: '429', or 'rate limit' in any case.
RateLimitSignal(o) ==
    /\ o.error # None
    /\ \/ \E i \in 1..Len(o.error[1]) : o.error[1][i] = "429"
       \/ \E i \in 1..(Len(o.error[1]) - 1) :
             /\ o.error[1][i] \in {"rate", "Rate", "RATE"}
             /\ o.error[1][i + 1] \in {"limit", "Limit", "LIMIT"}

AllBlank(s) == \A i \in 1..Len(s) : s[i] = Blank

\* t is s without its leading and trailing blanks.
IsTrimOf(t, s) ==
    /\ t = <<>> \/ (t[1] # Blank /\ t[Len(t)] # Blank)
    /\ \E i \in 0..Len(s) :
          /\ i + Len(t) <= Len(s)
          /\ \A j \in 1..Len(t) : s[i + j] = t[j]
          /\ \A j \in 1..i : s[j] = Blank
          /\ \A j \in (i + Len(t) + 1)..Len(s) : s[j] = Blank

\* The upload is an image the router accepts.
ValidImage(u) ==
    u.kind = "file" /\ u.mimetype \in SupportedSet /\ u.size > 0 /\ u.size <= fileSize

(* -------------------------------- claims -------------------------------- *)

\* C1: withRetry invokes the operation at least once and at most 3 times; an
\* invocation is followed by another only if it failed with a rate-limit
\* signal and fewer than 3 attempts had been made; a successful attempt ends
\* the call with that attempt's (trimmed) result and nothing is invoked after.
C1_RetryBounded ==
    \A r \in Requests :
        /\ invoked[r] <= 3
        /\ text[r] # None => invoked[r] >= 1
        /\ Len(calls[r]) \in {invoked[r], invoked[r] - 1}
        /\ \A i \in 1..Len(calls[r]) :
              /\ i < invoked[r] => RateLimitSignal(calls[r][i]) /\ i < 3
              /\ Succeeded(calls[r][i]) =>
                    /\ i = invoked[r]
                    /\ pc[r] = "done"
                    /\ Len(responses[r]) = 1
                    /\ responses[r][1].success
                    /\ responses[r][1].caption # None
                    /\ IsTrimOf(responses[r][1].caption[1], calls[r][i].content[1])

\* C1 witness: two rate-limited attempts, then a third that succeeds.
C1_Witness ==
    \E r \in Requests :
        /\ invoked[r] = 3 /\ Len(calls[r]) = 3
        /\ RateLimitSignal(calls[r][1]) /\ RateLimitSignal(calls[r][2])
        /\ Succeeded(calls[r][3])
        /\ pc[r] = "done"

\* Every settled attempt of r was rate-limited, and there were three.
AllThreeRateLimited(r) ==
    /\ pc[r] = "done"
    /\ Len(calls[r]) = 3
    /\ \A i \in 1..3 : RateLimitSignal(calls[r][i])

\* C2 (as stated): in a run where every attempt is rate-limited the three
\* delays 1s, 2s and 4s are waited.
C2_Original ==
    \A r \in Requests : AllThreeRateLimited(r) => delays[r] = <<1000, 2000, 4000>>

\* C2 (amended): the delay waited after the k-th rate-limited attempt is
\* 1000 * 2^(k-1) ms for k = 1, 2 and each is larger than the one before; a
\* delay is waited exactly after each rate-limited attempt among the first
\* two, none after the third, so 4s is never waited.
C2_Backoff ==
    \A r \in Requests :
        /\ \A k \in 1..Len(delays[r]) : delays[r][k] = 1000 * 2^(k - 1)
        /\ \A k \in 2..Len(delays[r]) : delays[r][k] > delays[r][k - 1]
        /\ Len(delays[r]) =
              Cardinality({k \in 1..Len(calls[r]) : k < 3 /\ RateLimitSignal(calls[r][k])})
        /\ \A k \in 1..Len(delays[r]) : delays[r][k] # 4000
        /\ AllThreeRateLimited(r) => delays[r] = <<1000, 2000>>

\* C2 witness: three rate-limited attempts, with the waits 1s and 2s between.
C2_Witness ==
    \E r \in Requests : AllThreeRateLimited(r) /\ delays[r] = <<1000, 2000>>

\* C3: a failure without a rate-limit signal, on whichever attempt, is
\* propagated at once: no delay follows it, nothing is invoked after it, and
\* the error withRetry throws is that attempt's error.
C3_NonRateLimitImmediate ==
    \A r \in Requests :
        \A i \in 1..Len(calls[r]) :
            (~Succeeded(calls[r][i]) /\ ~RateLimitSignal(calls[r][i])) =>
                /\ i = Len(calls[r]) /\ i = invoked[r]
                /\ Len(delays[r]) = i - 1
                /\ pc[r] = "done"
                /\ lastError[r] = Some(FailureOf(calls[r][i], req[r][1].route))
                /\ Len(responses[r]) = 1
                /\ ~responses[r][1].success

\* C3 witness: the third attempt fails without a rate-limit signal.
C3_Witness ==
    \E r \in Requests :
        /\ Len(calls[r]) = 3
        /\ calls[r][3].error = Some(<<"500", "Internal", "server", "error">>)
        /\ pc[r] = "done"

\* The single response of a finished request.
Answer(r) == responses[r][1]

\* The request r is finished.
Done(r) == pc[r] = "done"

\* C4 (as stated): an upload whose declared MIME type is not allow-listed is
\* answered with success:false and a 4xx status, and the model is not called.
C4_BadMimeIs4xx ==
    \A r \in Requests :
        (Done(r) /\ req[r][1].upload.kind = "file"
                 /\ req[r][1].upload.mimetype \notin SupportedSet) =>
            /\ ~Answer(r).success
            /\ Answer(r).status \in 400..499
            /\ invoked[r] = 0

\* C5 (as stated): a request with no image file or with a zero-byte file is
\* answered 400 with success:false and an error message, before the service
\* is configured or called, and without a caption.
C5_NoOrEmptyFileIs400 ==
    \A r \in Requests :
        (Done(r) /\ \/ req[r][1].upload.kind = "none"
                    \/ req[r][1].upload.kind = "file" /\ req[r][1].upload.size = 0) =>
            /\ Answer(r).status = 400
            /\ ~Answer(r).success
            /\ Answer(r).error # None /\ Answer(r).error # Some(<<>>)
            /\ Answer(r).caption = None
            /\ ~configured[r]
            /\ invoked[r] = 0

\* C6 (as stated): every success:true response carries a non-empty caption,
\* comes from a call in which the model returned content, and a call
\* without content (missing or empty) fails the request.
C6_SuccessHasCaption ==
    \A r \in Requests :
        Done(r) =>
            /\ Answer(r).success =>
                  /\ calls[r] # <<>>
                  /\ Succeeded(calls[r][Len(calls[r])])
                  /\ Answer(r).caption # None
                  /\ Answer(r).caption[1] # <<>>
            /\ (calls[r] # <<>> /\ calls[r][Len(calls[r])].error = None
                   /\ ~Succeeded(calls[r][Len(calls[r])])) => ~Answer(r).success

\* C7: POST /custom with a valid image and a missing, empty or blank prompt
\* is answered 400 with success:false and the model is never called; an
\* accepted prompt reaches the model without leading and trailing blanks.
C7_CustomPrompt ==
    \A r \in Requests :
        (Received(r) /\ req[r][1].route = "/custom" /\ ValidImage(req[r][1].upload)
            /\ pc[r] \notin {"upload", "handler"}) =>
            LET p == req[r][1].prompt IN
            IF p = None \/ AllBlank(p[1])
            THEN /\ Done(r)
                 /\ Answer(r).status = 400 /\ ~Answer(r).success
                 /\ invoked[r] = 0 /\ text[r] = None
            ELSE /\ invoked[r] > 0 => text[r] # None
                 /\ text[r] # None => IsTrimOf(text[r][1], p[1])

\* C7 witness: a blank prompt with a valid image has been rejected.
C7_Witness ==
    \E r \in Requests :
        /\ Done(r) /\ req[r][1].route = "/custom" /\ ValidImage(req[r][1].upload)
        /\ req[r][1].prompt = Some(<<Blank>>)
        /\ Answer(r).status = 400

\* The descriptive message of an upstream failure of kind 401, 404 or 429.
Described(kind) ==
    CASE kind = "401" -> MsgUnauthorized
      [] kind = "404" -> MsgNotFound
      [] kind = "429" -> MsgRateLimited

\* C8 (as stated): on both routes a request that fails on an upstream error
\* of kind 401, 404 or 429 is answered 500 with success:false and the
\* descriptive message of that kind, not the upstream message.
C8_UpstreamMapped ==
    \A r \in Requests :
        \A kind \in {"401", "404", "429"} :
            (Done(r) /\ calls[r] # <<>>
                /\ calls[r][Len(calls[r])].error # None
                /\ calls[r][Len(calls[r])].error[1][1] = kind) =>
                /\ Answer(r).status = 500
                /\ ~Answer(r).success
                /\ Answer(r).error = Some(Described(kind))

\* Some step of request r failed: the upload, the file or prompt validation,
\* the configuration, or the last attempt of the model call.
Failed(r) ==
    LET u == req[r][1].upload IN
    \/ u.kind # "file"
    \/ ~ValidImage(u)
    \/ /\ req[r][1].route = "/custom"
       /\ req[r][1].prompt = None \/ AllBlank(req[r][1].prompt[1])
    \/ "" \in {env.apiKey, env.endpoint, env.modelId}
    \/ calls[r] = <<>>
    \/ ~Succeeded(calls[r][Len(calls[r])])

\* C9: a request is answered exactly once, when it finishes; the envelope
\* has success:false, a non-empty error and no caption if a step failed, and
\* success:true, a caption and no error otherwise.
C9_OneEnvelope ==
    \A r \in Requests :
        /\ Len(responses[r]) = IF Done(r) THEN 1 ELSE 0
        /\ Done(r) =>
              IF Failed(r)
              THEN /\ ~Answer(r).success
                   /\ Answer(r).error # None /\ Answer(r).error[1] # <<>>
                   /\ Answer(r).caption = None
              ELSE /\ Answer(r).success
                   /\ Answer(r).caption # None
                   /\ Answer(r).error = None

\* C9 witness: a request that failed after its retries were exhausted.
C9_Witness ==
    \E r \in Requests : Done(r) /\ Len(calls[r]) = 3 /\ Failed(r) /\ ~Answer(r).success

\* The upload of request r is a file above the size ceiling.
Oversized(r) ==
    Received(r) /\ req[r][1].upload.kind = "file" /\ req[r][1].upload.size > 10 * 1024 * 1024

\* r was answered 400 about the size limit; handler and model were not reached.
SizeRejected(r) ==
    /\ Answer(r).status = 400
    /\ ~Answer(r).success
    /\ Answer(r).error = Some(MsgSizeLimit)
    /\ ~entered[r]
    /\ invoked[r] = 0

InRetry(r) == pc[r] \in {"await", "sleep"}

\* The backoff delays of r that have been waited to their end.
Waited(r) == Len(delays[r]) - (IF pc[r] = "sleep" THEN 1 ELSE 0)

\* C11 (state part): the delays waited are one fewer than the invocations, no
\* delay is begun after the final attempt, and when all three attempts were
\* rate-limited the error thrown is the third attempt's.
C11_DelaysAndLastError ==
    \A r \in Requests :
        /\ invoked[r] >= 1 => Waited(r) = invoked[r] - 1
        /\ Done(r) => Len(delays[r]) = Len(calls[r]) - (IF calls[r] = <<>> THEN 0 ELSE 1)
        /\ AllThreeRateLimited(r) =>
              /\ lastError[r] = calls[r][3].error
              /\ ~Answer(r).success
              /\ Answer(r).error =
                    Some(IF \E i \in 1..Len(calls[r][3].error[1]) :
                                calls[r][3].error[1][i] = "429"
                         THEN MsgRateLimited
                         ELSE IF req[r][1].route = "/"
                              THEN MsgFailedPrefix \o calls[r][3].error[1]
                              ELSE calls[r][3].error[1])

\* C11: provided each invocation and each backoff delay completes, every
\* call of withRetry terminates (returning or throwing, the request then being
\* answered); the delays waited are always the invocations minus one; three
\* rate-limited attempts end in the third attempt's error.
C11_Terminates ==
    /\ []C11_DelaysAndLastError
    /\ \A r \in Requests : InRetry(r) ~> Done(r)

\* C11 witness: three rate-limited attempts whose last error differs from the
\* first, thrown after two delays.
C11_Witness ==
    \E r \in Requests :
        /\ AllThreeRateLimited(r)
        /\ calls[r][1].error = Some(<<"429", "Too", "Many", "Requests">>)
        /\ calls[r][3].error = Some(<<"Rate", "Limit", "reached">>)
        /\ lastError[r] = calls[r][3].error
        /\ Len(delays[r]) = 2 /\ invoked[r] = 3

\* Everything the program keeps for request r.
Own(r) ==
    <<pc[r], req[r], file[r], mwError[r], attempt[r], lastError[r], text[r],
      invoked[r], calls[r], delays[r], entered[r], configured[r], responses[r]>>

\* The answer a request with input i gets when served alone under
\* configuration e, its attempts having settled as the sequence c.
AnswerAlone(i, e, c) ==
    LET up == uploadSingle(i.upload)
        last == operation(c[Len(c)], FailureOf([error |-> None], i.route))
    IN IF up.error # None THEN errorMiddleware(up.error[1])
       ELSE IF ~validateFile(up.file).isValid
       THEN handlerReject(validateFile(up.file).error[1])
       ELSE IF i.route = "/custom" /\ promptMissing(i.prompt)
       THEN handlerReject(MsgPromptRequired)
       ELSE IF missingEnv(e) THEN handlerCatch(MsgMissingEnv)
       ELSE IF last.ok THEN handlerSuccess(last.value)
       ELSE handlerCatch(serviceCatch(i.route, last.value))

\* C12 (state part): each request counts its own attempts (at most 3
\* invocations, its counter being the number of its own finished delays, and
\* a rate-limited request gives up only after its own third attempt), and its
\* answer is the one it gets when served alone on the same input and outcomes.
C12_OwnCounterOwnAnswer ==
    \A r \in Requests :
        /\ invoked[r] <= 3
        /\ attempt[r] = Waited(r)
        /\ invoked[r] = IF text[r] = None THEN 0 ELSE attempt[r] + 1
        /\ \A k \in 1..Len(calls[r]) :
              k < Len(calls[r]) => RateLimitSignal(calls[r][k])
        /\ (Done(r) /\ calls[r] # <<>> /\ RateLimitSignal(calls[r][Len(calls[r])])) =>
              Len(calls[r]) = 3
        /\ Done(r) => responses[r] = <<AnswerAlone(req[r][1], env, calls[r])>>

\* C12 (step part): a step is taken by one request and leaves everything
\* kept for the other requests, and the configuration, as it was.
C12_StepIsLocal ==
    /\ env' = env
    /\ \A r, s \in Requests :
          (r # s /\ Own(r)' # Own(r)) => Own(s)' = Own(s)

\* C12: with two requests in flight at once, under every interleaving of
\* attempts, failures and delays, each request keeps its own attempt counter
\* and is answered from its own input and its own upstream outcomes.
C12_Independent == []C12_OwnCounterOwnAnswer /\ [][C12_StepIsLocal]_vars

\* C12 witness: two requests with the same input are inside withRetry at
\* once, one awaiting its third attempt while the other sleeps after its
\* second.
C12_Witness ==
    /\ pc["r1"] = "await" /\ attempt["r1"] = 2
    /\ pc["r2"] = "sleep" /\ attempt["r2"] = 1
    /\ req["r1"] = req["r2"]

====
